---- MODULE Spec2Model ----
(***************************************************************************)
(* node-proxy: an Express application with one relay route, POST /proxy,   *)
(* that forwards a caller-supplied request descriptor through the `got`    *)
(* HTTP client, plus the process-lifecycle glue of helper/errors.          *)
(*                                                                         *)
(* Each request walks the middleware stack of the application in           *)
(* registration order.  The POST /proxy handler validates the descriptor,  *)
(* builds the options object, calls got once and answers from the two      *)
(* promise callbacks.                                                      *)
(***************************************************************************)
EXTENDS Integers, Sequences, FiniteSets, TLC

\* ------------------------------------------------------------------ bounds
NumReqs == 2          \* request slots handled concurrently
MaxRetries == 1       \* largest retry budget the client may use by default

Reqs == 1..NumReqs

\* ------------------------------------------------------------ JSON values
JNum(n) == [t |-> "number", n |-> n]
JBool(b) == [t |-> "boolean", b |-> b]
JStr(s) == [t |-> "string", s |-> s]
JObj(o) == [t |-> "object", o |-> o]    \* o: sequence of <<key, scalar>>

\* JavaScript truthiness of a JSON value (ToBoolean).
Truthy(v) ==
  CASE v.t = "number" -> v.n # 0
    [] v.t = "boolean" -> v.b
    [] v.t = "string" -> v.s # ""
    [] OTHER -> TRUE

StringifyScalar(v) ==
  CASE v.t = "number" -> ToString(v.n)
    [] v.t = "boolean" -> (IF v.b THEN "true" ELSE "false")
    [] OTHER -> "\"" \o v.s \o "\""

RECURSIVE StringifyMembers(_)
StringifyMembers(o) ==
  IF o = <<>> THEN ""
  ELSE "\"" \o o[1][1] \o "\":" \o StringifyScalar(o[1][2])
       \o (IF Len(o) > 1 THEN "," ELSE "") \o StringifyMembers(Tail(o))

\* JSON.stringify: compact text, members in insertion order.
JSON_stringify(v) ==
  IF v.t = "object" THEN "{" \o StringifyMembers(v.o) \o "}"
  ELSE StringifyScalar(v)

\* The grammar JSON.parse accepts, on the texts an upstream may send:
\* insignificant whitespace is skipped, anything else is a SyntaxError.
ParseTable ==
  { <<"{\"k\":\"v\"}", JObj(<< <<"k", JStr("v")>> >>)>>,
    <<"{ \"k\" : \"v\" }", JObj(<< <<"k", JStr("v")>> >>)>>,
    <<" 0", JNum(0)>> }

SyntaxError == [name |-> "SyntaxError"]

JSON_parse(text) ==
  IF \E p \in ParseTable : p[1] = text
  THEN [ok |-> TRUE, value |-> (CHOOSE p \in ParseTable : p[1] = text)[2]]
  ELSE [ok |-> FALSE, err |-> SyntaxError]

\* ------------------------------------------------------------ descriptors
Undefined == [undefined |-> TRUE]
EmptyObject == [f \in {} |-> 0]

Has(d, f) == f \in DOMAIN d

Urls == {"", "http://x/ok"}
Methods == {"", "GET"}
Bodies == {JNum(0), JBool(FALSE), JStr(""), JNum(7), JObj(<< <<"a", JNum(1)>> >>)}
Timeouts == {1000}
Retries == {0, 1}
Headers == {"X-Test" :> "1"}

\* The objects that either lack key f or carry one of vals under it.
Opt(f, vals) == {EmptyObject} \cup {f :> v : v \in vals}

Descriptors ==
  { u @@ m @@ b @@ t @@ r @@ h :
      u \in Opt("url", Urls), m \in Opt("method", Methods),
      b \in Opt("body", Bodies), t \in Opt("timeout", Timeouts),
      r \in Opt("retries", Retries), h \in Opt("headers", Headers) }


ProxyReq(d) == [method |-> "POST", path |-> "/proxy", body |-> d]
GetReq(p) == [method |-> "GET", path |-> p, body |-> EmptyObject]
NoRequest == [method |-> "", path |-> "", body |-> Undefined]

\* --------------------------------------------------------------- variables
VARIABLES
  pc,             \* per request: "idle", "stack", "await", "done"
  layer,          \* per request: index of the stack layer about to run
  req,            \* per request: the express request (method, path, body)
  res,            \* per request: the express response (statusCode, sent)
  connTimeout,    \* per request: timeout set on req.connection (0: untouched)
  calls,          \* per request: the outbound got(url, options) calls made
  promise,        \* per request: the promise chain started by got()
  entered,        \* per request: IS_SHUTTING_DOWN when the request arrived
  isShuttingDown, \* app setting IS_SHUTTING_DOWN
  server,         \* the module-level server reference and what became of it:
                  \* "unset", "set", "closing", "closed"
  killer,         \* the killer handed to the gracefulShutdown that started
  timer,          \* the hardShutdown timer is armed
  excListener,    \* the once-listener of 'uncaughtException' is attached
  sigListeners,   \* the kill signals whose once-listener is attached
  uncaught,       \* the codes of the uncaught exceptions raised so far
  fatalUncaught,  \* number of 'Uncaught exception' fatal log entries
  exited          \* how the process ended, [by |-> "none"] while it runs

reqVars == <<pc, layer, req, res, connTimeout, calls, promise, entered>>
procVars ==
  <<isShuttingDown, server, killer, timer, excListener, sigListeners,
    uncaught, fatalUncaught, exited>>
vars == <<reqVars, procVars>>

\* ------------------------------------------------------- middleware stack
\* Registration order of the application.
Stack ==
  << "static", "json", "urlencoded", "GET /", "POST /proxy",
     "gracefulShutdown", "notFound", "appErrorHandler" >>

\* A route layer runs only for its method and path; a middleware layer
\* registered with app.use runs for every request.
Matches(name, r) ==
  CASE name = "GET /" -> r.method = "GET" /\ r.path = "/"
    [] name = "POST /proxy" -> r.method = "POST" /\ r.path = "/proxy"
    [] name = "appErrorHandler" -> FALSE
    [] OTHER -> TRUE

\* next(): the first later layer that matches the request.
NextLayer(r, k) ==
  CHOOSE j \in (k + 1)..Len(Stack) :
    /\ Matches(Stack[j], r)
    /\ \A l \in (k + 1)..(j - 1) : ~Matches(Stack[l], r)

At(i, name) == pc[i] = "stack" /\ Stack[layer[i]] = name

\* ------------------------------------------------------- express response
NewRes == [statusCode |-> 200, sent |-> <<>>]
ResStatus(r, code) == [r EXCEPT !.statusCode = code]
ResSend(r, body) ==
  [r EXCEPT !.sent = Append(@, [status |-> r.statusCode, body |-> body])]
ResJson(r, body) == ResSend(r, body)

NoPromise == [state |-> "none"]

RETURN_CODE_SERVER_ERROR == 1
RETURN_CODE_UNCAUGHT_EXCEPTION == 2
RETURN_CODE_UNHANDLED_REJECTION == 3

KillSignals == {"SIGUSR2", "SIGINT", "SIGTERM"}
ExceptionCodes == {"ECONNRESET", "ERR_OTHER"}

\* The killers: process.kill(process.pid, signal) and exitWithStatus(status).
SignalKiller(sig) == [signal |-> sig]
ExitKiller(status) == [status |-> status]
NoKiller == [none |-> TRUE]

Running == exited.by = "none"

Init ==
  /\ pc = [i \in Reqs |-> "idle"]
  /\ layer = [i \in Reqs |-> 1]
  /\ req = [i \in Reqs |-> NoRequest]
  /\ res = [i \in Reqs |-> NewRes]
  /\ connTimeout = [i \in Reqs |-> 0]
  /\ calls = [i \in Reqs |-> <<>>]
  /\ promise = [i \in Reqs |-> NoPromise]
  /\ entered = [i \in Reqs |-> FALSE]
  /\ isShuttingDown = FALSE
  /\ server = "unset"
  /\ killer = NoKiller
  /\ timer = FALSE
  /\ excListener = TRUE
  /\ sigListeners = KillSignals
  /\ uncaught = <<>>
  /\ fatalUncaught = 0
  /\ exited = [by |-> "none"]

\* The callback of server.listen: setServer(server).
Listening ==
  /\ Running /\ server = "unset"
  /\ server' = "set"
  /\ UNCHANGED <<reqVars, isShuttingDown, killer, timer, excListener,
                 sigListeners, uncaught, fatalUncaught, exited>>

\* A request arrives on a connection of the listening server (a server that
\* is closing still serves its open connections) and enters the stack at
\* its first layer.
Receive(i, r) ==
  /\ Running /\ server \in {"set", "closing"}
  /\ pc[i] = "idle"
  /\ pc' = [pc EXCEPT ![i] = "stack"]
  /\ req' = [req EXCEPT ![i] = r]
  /\ entered' = [entered EXCEPT ![i] = isShuttingDown]
  /\ UNCHANGED <<layer, res, connTimeout, calls, promise, procVars>>

\* express.static("public"): serves a file of public/ to a GET request when
\* one exists under the path, and calls next() otherwise.
Static(i) ==
  /\ At(i, "static")
  /\ \/ /\ req[i].method = "GET"
        /\ res' = [res EXCEPT ![i] = ResSend(@, [file |-> req[i].path])]
        /\ pc' = [pc EXCEPT ![i] = "done"]
        /\ UNCHANGED layer
     \/ /\ layer' = [layer EXCEPT ![i] = NextLayer(req[i], @)]
        /\ UNCHANGED <<pc, res>>
  /\ UNCHANGED <<req, connTimeout, calls, promise, entered, procVars>>

\* bodyParser.json and bodyParser.urlencoded: req.body is already decoded in
\* this model; the layer hands the request on.
BodyParser(i) ==
  /\ (At(i, "json") \/ At(i, "urlencoded"))
  /\ layer' = [layer EXCEPT ![i] = NextLayer(req[i], @)]
  /\ UNCHANGED <<pc, req, res, connTimeout, calls, promise, entered, procVars>>

\* GET /: answers with the environment name, never calls next().
GetRoot(i) ==
  /\ At(i, "GET /")
  /\ res' = [res EXCEPT ![i] = ResJson(@, [env |-> "NODE_ENV"])]
  /\ pc' = [pc EXCEPT ![i] = "done"]
  /\ UNCHANGED <<layer, req, connTimeout, calls, promise, entered, procVars>>

\* ------------------------------------------------------------ POST /proxy
\* `if (req.body.f)`: the field is there and its value is truthy.
IsSet(d, f) ==
  /\ Has(d, f)
  /\ CASE f \in {"url", "method"} -> d[f] # ""
       [] f \in {"timeout", "retries"} -> d[f] # 0
       [] f = "body" -> Truthy(d[f])
       [] OTHER -> TRUE

\* req.body = req.body || {}
BodyOrEmpty(b) == IF b = Undefined THEN EmptyObject ELSE b

UrlMissing == [message |-> "\"url\" is missing."]
MethodMissing == [message |-> "\"method\" is missing."]

\* Mutant: method is checked before url.
ValidateMethodFirst(d) ==
  IF ~IsSet(d, "method") THEN MethodMissing
  ELSE IF ~IsSet(d, "url") THEN UrlMissing
  ELSE EmptyObject

\* The validation of the handler: the body of the 400 it sends, or
\* EmptyObject when the descriptor passes.
Validate(d) ==
  IF ~IsSet(d, "url") THEN UrlMissing
  ELSE IF ~IsSet(d, "method") THEN MethodMissing
  ELSE EmptyObject

\* Mutant: options.headers = req.body.headers || {}, set on every call.
BuildOptionsAlwaysHeaders(d) ==
  [method |-> d.method]
    @@ (IF IsSet(d, "body") THEN [body |-> JSON_stringify(d.body)] ELSE EmptyObject)
    @@ (IF IsSet(d, "timeout") THEN [timeout |-> d.timeout] ELSE EmptyObject)
    @@ (IF IsSet(d, "retries") THEN [retries |-> d.retries] ELSE EmptyObject)
    @@ [headers |-> IF IsSet(d, "headers") THEN d.headers ELSE EmptyObject]

\* Mutant: the timeout of the descriptor is not handed to the client.
BuildOptionsNoTimeout(d) ==
  [method |-> d.method]
    @@ (IF IsSet(d, "body") THEN [body |-> JSON_stringify(d.body)] ELSE EmptyObject)
    @@ (IF IsSet(d, "retries") THEN [retries |-> d.retries] ELSE EmptyObject)
    @@ (IF IsSet(d, "headers") THEN [headers |-> d.headers] ELSE EmptyObject)

\* Mutant: one options object at module scope, shared by the invocations, so
\* that the keys an earlier invocation set are still there.
BuildOptionsShared(d) ==
  LET earlier == {calls[j][1].options : j \in {k \in Reqs : calls[k] # <<>>}}
      own == [method |-> d.method]
        @@ (IF IsSet(d, "body") THEN [body |-> JSON_stringify(d.body)] ELSE EmptyObject)
        @@ (IF IsSet(d, "timeout") THEN [timeout |-> d.timeout] ELSE EmptyObject)
        @@ (IF IsSet(d, "retries") THEN [retries |-> d.retries] ELSE EmptyObject)
        @@ (IF IsSet(d, "headers") THEN [headers |-> d.headers] ELSE EmptyObject)
  IN IF earlier = {} THEN own ELSE own @@ (CHOOSE o \in earlier : TRUE)

\* let options = {method}; one key more for every optional field that is set.
BuildOptions(d) ==
  [method |-> d.method]
    @@ (IF IsSet(d, "body") THEN [body |-> JSON_stringify(d.body)] ELSE EmptyObject)
    @@ (IF IsSet(d, "timeout") THEN [timeout |-> d.timeout] ELSE EmptyObject)
    @@ (IF IsSet(d, "retries") THEN [retries |-> d.retries] ELSE EmptyObject)
    @@ (IF IsSet(d, "headers") THEN [headers |-> d.headers] ELSE EmptyObject)

\* Mutant: both callbacks on one .then(onFulfilled, onRejected).
ChainSingleThen == << [onFulfilled |-> TRUE, onRejected |-> TRUE] >>

\* The handlers chained on the promise of got, one entry per .then():
\*   got(...).then(onFulfilled).then(null, onRejected)
Chain ==
  << [onFulfilled |-> TRUE, onRejected |-> FALSE],
     [onFulfilled |-> FALSE, onRejected |-> TRUE] >>

\* A rejection that reaches stage k of the chain is handled by the first
\* onRejected at or after k; with none it is an unhandled rejection.
Caught(k) == \E j \in k..Len(Chain) : Chain[j].onRejected

\* got(url, options): a pending promise.  The client retries a transient
\* failure options.retries times, or its own default number of times when the
\* option is unset; `silent` records an upstream that never answers.
GotPromises(options) ==
  { [state |-> "pending", retriesLeft |-> n, silent |-> s] :
      n \in (IF Has(options, "retries") THEN {options.retries} ELSE 0..MaxRetries),
      s \in BOOLEAN }

\* Mutant: the validation branches send the 400 without returning, and the
\* handler goes on to call the client.
ProxyNoReturn(i) ==
  /\ At(i, "POST /proxy")
  /\ LET d == BodyOrEmpty(req[i].body)
         url == IF Has(d, "url") THEN d.url ELSE ""
         method == IF Has(d, "method") THEN d.method ELSE ""
     IN
       /\ req' = [req EXCEPT ![i].body = d]
       /\ calls' = [calls EXCEPT ![i] =
                      Append(@, [url |-> url, options |-> [method |-> method]])]
       /\ \E p \in GotPromises([method |-> method]) :
             promise' = [promise EXCEPT ![i] = p]
       /\ IF Validate(d) # EmptyObject
          THEN /\ res' = [res EXCEPT ![i] = ResJson(ResStatus(@, 400), Validate(d))]
               /\ pc' = [pc EXCEPT ![i] = "done"]
          ELSE /\ pc' = [pc EXCEPT ![i] = "await"]
               /\ UNCHANGED res
  /\ UNCHANGED <<layer, connTimeout, entered, procVars>>

\* The synchronous part of the handler: validate, build the options, call got
\* and chain .then(onFulfilled).then(null, onRejected).
Proxy(i) ==
  /\ At(i, "POST /proxy")
  /\ LET d == BodyOrEmpty(req[i].body) IN
       /\ req' = [req EXCEPT ![i].body = d]
       /\ IF Validate(d) # EmptyObject
          THEN /\ res' = [res EXCEPT ![i] = ResJson(ResStatus(@, 400), Validate(d))]
               /\ pc' = [pc EXCEPT ![i] = "done"]
               /\ UNCHANGED <<calls, promise>>
          ELSE /\ calls' = [calls EXCEPT ![i] =
                              Append(@, [url |-> d.url, options |-> BuildOptions(d)])]
               /\ \E p \in GotPromises(BuildOptions(d)) :
                     promise' = [promise EXCEPT ![i] = p]
               /\ pc' = [pc EXCEPT ![i] = "await"]
               /\ UNCHANGED res
  /\ UNCHANGED <<layer, connTimeout, entered, procVars>>

Pending(i) == pc[i] = "await" /\ promise[i].state = "pending"
CallOptions(i) == calls[i][Len(calls[i])].options

\* ------------------------------------------------------------- the client
UpstreamBodies == {p[1] : p \in ParseTable} \cup {"not-json", ""}
ErrorStatuses == {500}

\* The upstream answers with a success status: got fulfils the promise with
\* the response.
UpstreamReply(i, text) ==
  /\ Pending(i) /\ ~promise[i].silent
  /\ promise' = [promise EXCEPT ![i] =
       [state |-> "fulfilled", stage |-> 1,
        response |-> [statusCode |-> 200, body |-> text]]]
  /\ UNCHANGED <<pc, layer, req, res, connTimeout, calls, entered, procVars>>

\* The upstream answers with an error status: got rejects the promise with
\* an HTTPError carrying the status code.
UpstreamError(i, code) ==
  /\ Pending(i) /\ ~promise[i].silent
  /\ promise' = [promise EXCEPT ![i] =
       [state |-> "rejected", stage |-> 1,
        response |-> [statusCode |-> code, body |-> ""],
        err |-> [name |-> "HTTPError", statusCode |-> code]]]
  /\ UNCHANGED <<pc, layer, req, res, connTimeout, calls, entered, procVars>>

\* A transient failure of one attempt: retried while the budget lasts, then
\* the promise is rejected with the error.
AttemptFailed(i, err) ==
  promise' = [promise EXCEPT ![i] =
    IF @.retriesLeft > 0
    THEN [@ EXCEPT !.retriesLeft = @ - 1]
    ELSE [state |-> "rejected", stage |-> 1, silent |-> @.silent, err |-> err]]

NetworkError(i) ==
  /\ Pending(i) /\ ~promise[i].silent
  /\ AttemptFailed(i, [name |-> "RequestError", code |-> "ECONNREFUSED"])
  /\ UNCHANGED <<pc, layer, req, res, connTimeout, calls, entered, procVars>>

\* options.timeout: the timer of the attempt expires.
GotTimeout(i) ==
  /\ Pending(i) /\ Has(CallOptions(i), "timeout")
  /\ AttemptFailed(i, [name |-> "RequestError", code |-> "ETIMEDOUT"])
  /\ UNCHANGED <<pc, layer, req, res, connTimeout, calls, entered, procVars>>

\* ---------------------------------------------------------- the callbacks
\* Mutant: the upstream body is sent back as text, unparsed.
ProxyThenRaw(i) ==
  /\ pc[i] = "await" /\ promise[i].state = "fulfilled"
  /\ res' = [res EXCEPT ![i] = ResJson(@, JStr(promise[i].response.body))]
  /\ promise' = [promise EXCEPT ![i].state = "settled"]
  /\ pc' = [pc EXCEPT ![i] = "done"]
  /\ UNCHANGED <<layer, req, connTimeout, calls, entered, procVars>>

\* .then(function (response) { res.json(JSON.parse(response.body)) }):
\* a throw of JSON.parse rejects the promise this .then() returns, which is
\* the next stage of the chain.
ProxyThen(i) ==
  /\ pc[i] = "await" /\ promise[i].state = "fulfilled"
  /\ Chain[promise[i].stage].onFulfilled
  /\ LET parsed == JSON_parse(promise[i].response.body) IN
       IF parsed.ok
       THEN /\ res' = [res EXCEPT ![i] = ResJson(@, parsed.value)]
            /\ promise' = [promise EXCEPT ![i].state = "settled"]
            /\ pc' = [pc EXCEPT ![i] = "done"]
       ELSE /\ promise' = [promise EXCEPT ![i] =
                 [state |-> "rejected", stage |-> @.stage + 1,
                  response |-> @.response, err |-> parsed.err]]
            /\ UNCHANGED <<pc, res>>
  /\ UNCHANGED <<layer, req, connTimeout, calls, entered, procVars>>

\* Mutant: the rejection handler answers 500.
ProxyCatch500(i) ==
  /\ pc[i] = "await" /\ promise[i].state = "rejected" /\ Caught(promise[i].stage)
  /\ res' = [res EXCEPT ![i] = ResJson(ResStatus(@, 500), [err |-> promise[i].err])]
  /\ promise' = [promise EXCEPT ![i].state = "settled"]
  /\ pc' = [pc EXCEPT ![i] = "done"]
  /\ UNCHANGED <<layer, req, connTimeout, calls, entered, procVars>>

\* .then(null, function (err) { return res.status(400).json({err: err}) })
ProxyCatch(i) ==
  /\ pc[i] = "await" /\ promise[i].state = "rejected" /\ Caught(promise[i].stage)
  /\ res' = [res EXCEPT ![i] = ResJson(ResStatus(@, 400), [err |-> promise[i].err])]
  /\ promise' = [promise EXCEPT ![i].state = "settled"]
  /\ pc' = [pc EXCEPT ![i] = "done"]
  /\ UNCHANGED <<layer, req, connTimeout, calls, entered, procVars>>

\* An unhandled rejection: the chain ended in a rejection no stage handles.
Unhandled(i) ==
  pc[i] = "await" /\ promise[i].state = "rejected" /\ ~Caught(promise[i].stage)

\* ------------------------------------------------- lifecycle middleware
\* gracefulShutdownMiddleware: closes out the connection of a request that
\* arrives during shutdown, then calls next().
ShutdownMiddleware(i) ==
  /\ At(i, "gracefulShutdown")
  /\ connTimeout' = [connTimeout EXCEPT ![i] = IF isShuttingDown THEN 1 ELSE @]
  /\ layer' = [layer EXCEPT ![i] = NextLayer(req[i], @)]
  /\ UNCHANGED <<pc, req, res, calls, promise, entered, procVars>>

\* notFoundHandler passes createError(404) to next, which runs
\* appErrorHandler: status 404, a client error, message "Not Found"
\* (the body sent to a client that accepts json).
NotFound(i) ==
  /\ At(i, "notFound")
  /\ res' = [res EXCEPT ![i] = ResJson(ResStatus(@, 404), [message |-> "Not Found"])]
  /\ pc' = [pc EXCEPT ![i] = "done"]
  /\ UNCHANGED <<layer, req, connTimeout, calls, promise, entered, procVars>>

\* A killer runs: the process ends, by the signal it sends itself (the
\* once-listener of that signal is gone by then) or by process.exit(status).
RunKiller(k, via) == exited' = [by |-> "killer", killer |-> k, via |-> via]

\* gracefulShutdown(killer) with the app registered.  A call during shutdown
\* returns at once.  A first call sets the flag, closes the server and arms
\* the hardShutdown timer; async.auto runs the killer once closeServer and
\* closeSecureServer have called back, which is at once when neither server
\* reference is set (setSecureServer is never called).
GracefulShutdown(k) ==
  IF isShuttingDown
  THEN UNCHANGED <<isShuttingDown, server, killer, timer, exited>>
  ELSE /\ isShuttingDown' = TRUE
       /\ killer' = k
       /\ timer' = TRUE
       /\ IF server = "set"
          THEN server' = "closing" /\ UNCHANGED exited
          ELSE UNCHANGED server /\ RunKiller(k, "auto")

\* A kill signal is delivered to its once-listener: killSignalHandler.
Signal(sig) ==
  /\ Running /\ sig \in sigListeners
  /\ sigListeners' = sigListeners \ {sig}
  /\ GracefulShutdown(SignalKiller(sig))
  /\ UNCHANGED <<reqVars, excListener, uncaught, fatalUncaught>>

KillSignal == \E sig \in KillSignals : Signal(sig)

\* An exception reaches the top of the stack.  The listener registered with
\* process.once is removed before it runs: it suppresses ECONNRESET and
\* otherwise logs fatal and shuts down with status 2.  With no listener
\* left the runtime prints the exception and ends the process with status 1.
UncaughtException(code) ==
  /\ Running
  /\ uncaught' = Append(uncaught, code)
  /\ IF excListener
     THEN /\ excListener' = FALSE
          /\ IF code = "ECONNRESET"
             THEN UNCHANGED <<fatalUncaught, isShuttingDown, server, killer,
                              timer, exited>>
             ELSE /\ fatalUncaught' = fatalUncaught + 1
                  /\ GracefulShutdown(ExitKiller(RETURN_CODE_UNCAUGHT_EXCEPTION))
     ELSE /\ exited' = [by |-> "runtime", status |-> 1]
          /\ UNCHANGED <<excListener, fatalUncaught, isShuttingDown, server,
                         killer, timer>>
  /\ UNCHANGED <<reqVars, sigListeners>>

\* process.on('unhandledRejection'): logs fatal and shuts down with status 3.
UnhandledRejection ==
  /\ Running
  /\ GracefulShutdown(ExitKiller(RETURN_CODE_UNHANDLED_REJECTION))
  /\ UNCHANGED <<reqVars, excListener, sigListeners, uncaught, fatalUncaught>>

\* The 'error' event of the server, listened to since setServer:
\* serverErrorHandler logs fatal and shuts down with status 1.
ServerError ==
  /\ Running /\ server # "unset"
  /\ GracefulShutdown(ExitKiller(RETURN_CODE_SERVER_ERROR))
  /\ UNCHANGED <<reqVars, excListener, sigListeners, uncaught, fatalUncaught>>

\* The callback of server.close, once the last connection has ended: the
\* shutdown task of async.auto runs the killer.
ServerClosed ==
  /\ Running /\ server = "closing"
  /\ server' = "closed"
  /\ RunKiller(killer, "auto")
  /\ UNCHANGED <<reqVars, isShuttingDown, killer, timer, excListener,
                 sigListeners, uncaught, fatalUncaught>>

\* hardShutdown: the timer set SUICIDE_TIMEOUT_IN_MS after the start expires.
HardShutdown ==
  /\ Running /\ timer
  /\ timer' = FALSE
  /\ RunKiller(killer, "timer")
  /\ UNCHANGED <<reqVars, isShuttingDown, server, killer, excListener,
                 sigListeners, uncaught, fatalUncaught>>

\* ------------------------------------------------------------ the system
\* The requests of the concurrent runs.
PoolDescriptors ==
  { EmptyObject,
    [url |-> "http://x/ok", method |-> "GET"],
    [url |-> "http://x/ok", method |-> "GET", timeout |-> 1000, retries |-> 1] }
Requests ==
  {GetReq("/"), GetReq("/other")} \cup {ProxyReq(d) : d \in PoolDescriptors}

Handle(i) ==
  \/ Static(i)
  \/ BodyParser(i)
  \/ GetRoot(i)
  \/ Proxy(i)
  \/ \E text \in UpstreamBodies : UpstreamReply(i, text)
  \/ \E code \in ErrorStatuses : UpstreamError(i, code)
  \/ NetworkError(i)
  \/ GotTimeout(i)
  \/ ProxyThen(i)
  \/ ProxyCatch(i)
  \/ ShutdownMiddleware(i)
  \/ NotFound(i)

Next ==
  \/ Listening
  \/ \E i \in Reqs, r \in Requests : Receive(i, r)
  \/ \E i \in Reqs : Handle(i)
  \/ Signal("SIGTERM")

Spec == Init /\ [][Next]_vars

\* One request at a time, over every descriptor.
AllRequests ==
  {GetReq("/"), GetReq("/other")}
    \cup {ProxyReq(d) : d \in Descriptors \cup {Undefined}}

ForwardNext ==
  \/ Listening
  \/ \E r \in AllRequests : Receive(1, r)
  \/ Handle(1)
  \/ Signal("SIGTERM")

ForwardSpec == Init /\ [][ForwardNext]_vars

\* The relay alone, with the scheduling the runtime guarantees: a timer that
\* stays armed fires, and a callback of a settled promise runs.
LiveNext ==
  \/ Listening
  \/ \E i \in Reqs, d \in PoolDescriptors : Receive(i, ProxyReq(d))
  \/ \E i \in Reqs :
       \/ Static(i)
       \/ BodyParser(i)
       \/ Proxy(i)
       \/ \E text \in UpstreamBodies : UpstreamReply(i, text)
       \/ \E code \in ErrorStatuses : UpstreamError(i, code)
       \/ NetworkError(i)
       \/ GotTimeout(i)
       \/ ProxyThen(i)
       \/ ProxyCatch(i)

\* The life of the process: startup, the shutdown triggers, the close of
\* the server and the hardShutdown timer.
ShutdownNext ==
  \/ Listening
  \/ KillSignal
  \/ \E code \in ExceptionCodes : UncaughtException(code)
  \/ UnhandledRejection
  \/ ServerError
  \/ ServerClosed
  \/ HardShutdown

ShutdownSpec == Init /\ [][ShutdownNext]_vars

LiveSpec ==
  /\ Init
  /\ [][LiveNext]_vars
  /\ \A i \in Reqs :
       /\ WF_vars(GotTimeout(i))
       /\ WF_vars(ProxyThen(i))
       /\ WF_vars(ProxyCatch(i))

\* ================================================================ claims
IsProxy(i) == req[i].method = "POST" /\ req[i].path = "/proxy"
\* The handler of POST /proxy has run for request i.
Forwarded(i) == IsProxy(i) /\ pc[i] \in {"await", "done"}
Desc(i) == req[i].body
LacksUrl(d) == ~Has(d, "url") \/ d.url = ""
LacksMethod(d) == ~Has(d, "method") \/ d.method = ""
ValidDesc(d) == ~LacksUrl(d) /\ ~LacksMethod(d)
OptionalFields == {"body", "timeout", "retries", "headers"}
Replied(i, status, body) ==
  pc[i] = "done" /\ res[i].sent = <<[status |-> status, body |-> body]>>

\* C1: a POST /proxy whose descriptor lacks a non-empty url or method is
\* answered 400 with a message naming the field, url before method, and no
\* outbound call is made.
C1_MissingField ==
  \A i \in Reqs : Forwarded(i) =>
    /\ LacksUrl(Desc(i)) =>
         Replied(i, 400, [message |-> "\"url\" is missing."]) /\ calls[i] = <<>>
    /\ ~LacksUrl(Desc(i)) /\ LacksMethod(Desc(i)) =>
         Replied(i, 400, [message |-> "\"method\" is missing."]) /\ calls[i] = <<>>

C1_Witness ==
  \E i \in Reqs :
    /\ Desc(i) = EmptyObject
    /\ Replied(i, 400, [message |-> "\"url\" is missing."])

\* C2: every optional field present in a valid descriptor appears in the
\* options of the outbound call: body as its JSON text, timeout, retries and
\* headers unchanged, whatever permitted value the field has.
C2_PresentFieldsTranslated ==
  \A i \in Reqs : Forwarded(i) /\ ValidDesc(Desc(i)) =>
    /\ Len(calls[i]) = 1
    /\ \A f \in OptionalFields : Has(Desc(i), f) =>
         /\ Has(calls[i][1].options, f)
         /\ calls[i][1].options[f] =
              (IF f = "body" THEN JSON_stringify(Desc(i).body) ELSE Desc(i)[f])

\* C3: an optional field absent from a valid descriptor leaves the option
\* unset; the options always carry method, and a descriptor of url and
\* method alone yields exactly {method}.
C3_AbsentFieldsUnset ==
  \A i \in Reqs : Forwarded(i) /\ ValidDesc(Desc(i)) =>
    /\ Len(calls[i]) = 1
    /\ DOMAIN calls[i][1].options \subseteq {"method"} \cup OptionalFields
    /\ calls[i][1].options.method = Desc(i).method
    /\ \A f \in OptionalFields :
         ~Has(Desc(i), f) => ~Has(calls[i][1].options, f)
    /\ DOMAIN Desc(i) = {"url", "method"} =>
         calls[i][1].options = [method |-> Desc(i).method]

C3_Witness ==
  \E i \in Reqs :
    /\ Forwarded(i)
    /\ Desc(i) = [url |-> "http://x/ok", method |-> "GET"]
    /\ calls[i] = <<[url |-> "http://x/ok", options |-> [method |-> "GET"]]>>

\* The upstream answered request i with a success status and this body.
Answered(i, text) ==
  /\ Forwarded(i) /\ Has(promise[i], "response")
  /\ promise[i].response.statusCode = 200
  /\ promise[i].response.body = text

\* C4: when the outbound call succeeds with a body that is valid JSON, the
\* caller gets status 200 and the parsed value, and nothing else.
C4_SuccessParsed ==
  \A i \in Reqs :
    /\ Answered(i, "{\"k\":\"v\"}") /\ pc[i] = "done" =>
         Replied(i, 200, JObj(<< <<"k", JStr("v")>> >>))
    /\ \A text \in UpstreamBodies :
         Answered(i, text) /\ JSON_parse(text).ok /\ pc[i] = "done" =>
           Replied(i, 200, JSON_parse(text).value)

C4_Witness ==
  \E i \in Reqs :
    /\ Answered(i, "{ \"k\" : \"v\" }")
    /\ Replied(i, 200, JObj(<< <<"k", JStr("v")>> >>))

\* The outbound call of request i failed with this error.
CallFailed(i) ==
  /\ Forwarded(i) /\ Has(promise[i], "err")
  /\ promise[i].err.name # "SyntaxError"

\* C5: when the outbound call fails, the caller gets 400 with {err: error},
\* the error carrying the upstream status code when there is one, and the
\* rejection never goes unhandled.
C5_FailureReported ==
  \A i \in Reqs :
    /\ ~Unhandled(i)
    /\ CallFailed(i) =>
         /\ pc[i] = "done" => Replied(i, 400, [err |-> promise[i].err])
         /\ Has(promise[i], "response") =>
              promise[i].err.statusCode = promise[i].response.statusCode
         /\ promise[i].state = "settled" => pc[i] = "done"

C5_Witness ==
  \E i \in Reqs :
    /\ CallFailed(i)
    /\ Replied(i, 400, [err |-> [name |-> "HTTPError", statusCode |-> 500]])

NonJson == {"not-json", ""}

\* C6: when the upstream body is not valid JSON, the parse failure reaches
\* the rejection handler: the caller gets 400 {err}, never a success
\* response, the chain never settles without a response, and the rejection
\* never goes unhandled.
C6_MalformedSurfaced ==
  \A i \in Reqs : \A text \in NonJson : Answered(i, text) =>
    /\ ~Unhandled(i)
    /\ pc[i] = "await" => res[i].sent = <<>>
    /\ promise[i].state = "settled" => pc[i] = "done"
    /\ pc[i] = "done" => Replied(i, 400, [err |-> [name |-> "SyntaxError"]])

C6_Witness ==
  \E i \in Reqs :
    /\ Answered(i, "not-json")
    /\ Replied(i, 400, [err |-> [name |-> "SyntaxError"]])

\* C7: an invocation with a valid descriptor makes exactly one outbound call,
\* to the url and with the method of the descriptor; one that fails
\* validation, and any other request, makes none.
C7_OneOutboundCall ==
  \A i \in Reqs :
    /\ Len(calls[i]) <= 1
    /\ Forwarded(i) /\ ValidDesc(Desc(i)) =>
         /\ Len(calls[i]) = 1
         /\ calls[i][1].url = Desc(i).url
         /\ calls[i][1].options.method = Desc(i).method
    /\ ~(Forwarded(i) /\ ValidDesc(Desc(i))) => calls[i] = <<>>

C7_Witness ==
  \E i \in Reqs :
    /\ pc[i] = "done" /\ Forwarded(i) /\ ValidDesc(Desc(i))
    /\ Len(calls[i]) = 1
    /\ Has(promise[i], "err") /\ promise[i].err.name = "RequestError"

\* C8: with a timeout in the descriptor and an upstream that never answers,
\* the invocation ends: the caller gets exactly one response, the 400 of the
\* timeout error.
C8_TimeoutResolves ==
  \A i \in Reqs :
    (Pending(i) /\ Has(Desc(i), "timeout") /\ promise[i].silent)
      ~> Replied(i, 400, [err |-> [name |-> "RequestError", code |-> "ETIMEDOUT"]])

C8_Witness ==
  \E i \in Reqs :
    /\ Has(Desc(i), "timeout") /\ Has(promise[i], "silent") /\ promise[i].silent
    /\ Replied(i, 400, [err |-> [name |-> "RequestError", code |-> "ETIMEDOUT"]])

\* What the handler owes the caller of request i, from the descriptor and
\* the upstream outcome of request i alone.
OwnResponse(i) ==
  IF LacksUrl(Desc(i)) THEN [status |-> 400, body |-> [message |-> "\"url\" is missing."]]
  ELSE IF LacksMethod(Desc(i))
    THEN [status |-> 400, body |-> [message |-> "\"method\" is missing."]]
  ELSE IF Has(promise[i], "err") THEN [status |-> 400, body |-> [err |-> promise[i].err]]
  ELSE [status |-> 200, body |-> JSON_parse(promise[i].response.body).value]

\* C9: concurrent invocations do not interfere: the options of each outbound
\* call come from the descriptor of its own invocation, each response comes
\* from the descriptor and the upstream outcome of its own invocation, and a
\* caller gets a response only from its own invocation, once.
C9_Isolated ==
  \A i \in Reqs :
    /\ Len(res[i].sent) <= 1
    /\ pc[i] # "done" => res[i].sent = <<>>
    /\ Forwarded(i) /\ pc[i] = "done" => res[i].sent = <<OwnResponse(i)>>
    /\ Forwarded(i) /\ ValidDesc(Desc(i)) =>
         /\ Len(calls[i]) = 1
         /\ calls[i][1].url = Desc(i).url
         /\ calls[i][1].options.method = Desc(i).method
         /\ \A f \in DOMAIN calls[i][1].options \ {"method"} :
              /\ Has(Desc(i), f)
              /\ calls[i][1].options[f] =
                   (IF f = "body" THEN JSON_stringify(Desc(i).body) ELSE Desc(i)[f])

C9_Witness ==
  \E i, j \in Reqs :
    /\ i # j
    /\ Forwarded(i) /\ Forwarded(j)
    /\ Len(calls[i]) = 1 /\ Len(calls[j]) = 1
    /\ Has(calls[i][1].options, "timeout") /\ calls[j][1].options = [method |-> "GET"]
    /\ Replied(i, 400, [err |-> [name |-> "HTTPError", statusCode |-> 500]])
    /\ Replied(j, 200, JObj(<< <<"k", JStr("v")>> >>))

\* C10: a request that arrives while the shutting-down flag is set has passed
\* the graceful-shutdown middleware, its connection timeout set to 1, when a
\* route handler is about to run for it.
C10_ShutdownMiddlewareFirst ==
  \A i \in Reqs :
    entered[i] /\ (At(i, "GET /") \/ At(i, "POST /proxy")) => connTimeout[i] = 1

\* C11: once a graceful shutdown has started, the killer of the first
\* gracefulShutdown call is invoked in the end, so the process does not end
\* during shutdown in any other way; the killer is not invoked before the
\* server has closed (or was never set) unless the hardShutdown timer fired.
C11_FirstKillerInvoked ==
  /\ isShuttingDown /\ ~Running =>
       exited.by = "killer" /\ exited.killer = killer
  /\ exited.by = "killer" =>
       exited.via = "timer" \/ server \in {"unset", "closed"}

\* The part of C11 about later attempts: while the flag is set and the
\* process runs, no step replaces the killer, closes the server again or
\* re-arms the timer, and the process ends only by the killer of the first
\* call or by the runtime.
C11_LaterAttemptsInert ==
  [][isShuttingDown /\ Running =>
       /\ killer' = killer
       /\ server' \in {server, "closed"}
       /\ ~timer => ~timer'
       /\ ~Running' /\ exited'.by = "killer" => exited'.killer = killer]_vars

\* C12: every uncaught exception other than ECONNRESET is logged as fatal
\* and, when no other trigger started the shutdown, leads to a graceful
\* shutdown that ends the process with status 2; ECONNRESET exceptions are
\* suppressed without a shutdown; whatever the sequence of exceptions.
C12_UncaughtExceptionsHandled ==
  LET fatalOnes == {n \in 1..Len(uncaught) : uncaught[n] # "ECONNRESET"}
      otherTrigger == killer \notin {NoKiller, [status |-> 2]}
  IN /\ fatalUncaught = Cardinality(fatalOnes)
     /\ fatalOnes # {} /\ ~otherTrigger =>
          /\ isShuttingDown /\ killer = [status |-> 2]
          /\ ~Running => exited.by = "killer" /\ exited.killer = [status |-> 2]
     /\ fatalOnes = {} => killer # [status |-> 2] /\ exited.by # "runtime"

====
